---- MODULE Spec2Model ----
(***************************************************************************)
(* A model of wish (src/wish.c): the tokenizer (parse_line,                *)
(* parse_subtokens), the builtins, the redirection handler, the launcher   *)
(* and the per-line orchestrator of wish_shell, with the child processes   *)
(* the shell forks running concurrently with it.                           *)
(*                                                                         *)
(* Strings are sequences of one-character strings; a token stream is a     *)
(* sequence of such strings, the C NULL terminator being the end of the    *)
(* sequence.  C indices are kept 0-based in the variables.                 *)
(***************************************************************************)
EXTENDS Integers, Sequences, FiniteSets, TLC

(***************************************************************************)
(* Program constants.                                                      *)
(***************************************************************************)
TOKENS_NUMBER == 64
MAX_PARALLEL_PROCESSES == 16
DELIM == {" ", "\t", "\n", "\r"}
REDIRECTION_DELIM == ">"
PARALLEL_DELIM == "&"
EXIT_SUCCESS == 0
EXIT_FAILURE == 1

(***************************************************************************)
(* Bounds of the model.                                                    *)
(***************************************************************************)
MaxLineLen == 6     \* characters of a line in the tokenizer specification
MaxWords == 3       \* words of a generated line in the shell specification
MaxLines == 2       \* lines the shell reads before end-of-input
MaxChildren == 3    \* successful forks in one run
MaxLongWords == 66  \* words of the longest line in the tokenizer specification

(***************************************************************************)
(* Words used by the inputs.                                               *)
(***************************************************************************)
W_exit == <<"e", "x", "i", "t">>
W_cd == <<"c", "d">>
W_path == <<"p", "a", "t", "h">>
W_ls == <<"l", "s">>
W_f == <<"f">>
W_gt == <<REDIRECTION_DELIM>>
W_amp == <<PARALLEL_DELIM>>
W_bin == <<"/", "b", "i", "n">>
W_usr_bin == <<"/", "u", "s", "r", "/", "b", "i", "n">>

(***************************************************************************)
(* strtok: the successive tokens strtok(s, D), strtok(NULL, D), ... give   *)
(* for a string s, i.e. its maximal runs of characters outside D.          *)
(***************************************************************************)
RECURSIVE span_length(_, _)
span_length(s, D) ==
    IF s = <<>> \/ Head(s) \in D THEN 0 ELSE 1 + span_length(Tail(s), D)

\* A token starts at every character outside D that is the first of s or
\* follows a character of D; the k-th token is the run at the k-th start.
strtok_all(s, D) ==
    LET starts == { i \in 1..Len(s) :
                      IF s[i] \in D THEN FALSE
                      ELSE IF i = 1 THEN TRUE ELSE s[i - 1] \in D }
        start(k) == CHOOSE i \in starts : Cardinality({ j \in starts : j <= i }) = k
    IN  [ k \in 1..Cardinality(starts) |->
            LET b == start(k)
            IN  SubSeq(s, b, b + span_length(SubSeq(s, b, Len(s)), D) - 1) ]

\* The do-while of parse_subtokens: every piece followed by the delimiter,
\* the last inserted delimiter then overwritten by the terminator.
RECURSIVE emit_pieces(_, _)
emit_pieces(parts, delimiter) ==
    IF parts = <<>> THEN <<>>
    ELSE <<Head(parts), <<delimiter>>>> \o emit_pieces(Tail(parts), delimiter)

\* Mutant: the trailing delimiter is not taken back.
split_token_KeepsTrailingDelimiter(parts, delimiter) ==
    emit_pieces(parts, delimiter)

split_token(parts, delimiter) ==
    LET emitted == emit_pieces(parts, delimiter)
    IN  SubSeq(emitted, 1, Len(emitted) - 1)

\* One iteration of the for loop of parse_subtokens on tokens[i]: the tokens
\* appended to parsed_tokens, or a fault when strtok returns NULL (a token
\* made only of delimiter characters) and strcmp dereferences it.
subtokens_of(token, delimiter) ==
    IF token = <<delimiter>> THEN [fault |-> "none", tokens |-> <<token>>]
    ELSE LET parts == strtok_all(token, {delimiter})
         IN  IF parts = <<>> THEN [fault |-> "segv", tokens |-> <<>>]
             ELSE IF parts[1] = token
                  THEN [fault |-> "none", tokens |-> <<token>>]
                  ELSE [fault |-> "none", tokens |-> split_token(parts, delimiter)]

\* The concatenation of a sequence of sequences, by halves.
RECURSIVE concat_all(_)
concat_all(seqs) ==
    IF Len(seqs) = 0 THEN <<>>
    ELSE IF Len(seqs) = 1 THEN seqs[1]
    ELSE LET h == Len(seqs) \div 2
         IN  concat_all(SubSeq(seqs, 1, h)) \o concat_all(SubSeq(seqs, h + 1, Len(seqs)))

\* The for loop of parse_subtokens: the loop stops at the first token that
\* faults, otherwise parsed_tokens is what the iterations appended, in order.
parse_subtokens(tokens, delimiter) ==
    LET each == [ i \in 1..Len(tokens) |-> subtokens_of(tokens[i], delimiter) ]
        faulty == { i \in 1..Len(tokens) : each[i].fault # "none" }
    IN  IF faulty # {}
        THEN each[CHOOSE i \in faulty : \A j \in faulty : i <= j]
        ELSE [fault |-> "none",
              tokens |-> concat_all([ i \in 1..Len(tokens) |-> each[i].tokens ])]

\* parsed_tokens has TOKENS_NUMBER slots and needs one for the terminator:
\* a longer result is written past the end of the allocation.
check_capacity(r) ==
    IF r.fault = "none" /\ Len(r.tokens) > TOKENS_NUMBER - 1
    THEN [fault |-> "overflow", tokens |-> r.tokens]
    ELSE r

\* The whitespace pass of parse_line: at most TOKENS_NUMBER - 1 tokens kept.
initial_tokens(line) ==
    LET all == strtok_all(line, DELIM)
    IN  IF Len(all) > TOKENS_NUMBER - 1 THEN SubSeq(all, 1, TOKENS_NUMBER - 1) ELSE all

\* Mutant: the "&" pass is left out.
parse_line_RedirectionPassOnly(line) ==
    check_capacity(parse_subtokens(initial_tokens(line), REDIRECTION_DELIM))

parse_line(line) ==
    LET redirection_parsed ==
            check_capacity(parse_subtokens(initial_tokens(line), REDIRECTION_DELIM))
    IN  IF redirection_parsed.fault # "none" THEN redirection_parsed
        ELSE check_capacity(parse_subtokens(redirection_parsed.tokens, PARALLEL_DELIM))


(***************************************************************************)
(* The environment: the file system the processes see.                     *)
(***************************************************************************)
\* Paths execv can load.
Executables == {W_usr_bin \o <<"/">> \o W_ls}
\* Names chdir accepts; open(..., O_WRONLY | O_CREAT | O_TRUNC) fails on them.
Directories == {W_f, W_bin, W_usr_bin}

\* waitpid's pid argument -1 (any child), and a pid that names no child.
WAIT_ANY == -1
NoChildPid == MaxChildren + 1

VARIABLES
    pc,                  \* where the shell process is
    line,                \* the line getline returned
    args,                \* parse_line's token stream
    fault,               \* the fault that ended parsing, or "none"
    exit_status,         \* status the shell process exited with, -1 while running
    PATH,                \* the global PATH array up to its terminator
    cwd,                 \* the shell's working directory
    arg_position,        \* wish_shell locals, C indices
    command_arg_count,
    current_command,
    process_count,
    parallel_processes,  \* the pid_t array: the value last stored in each slot
    wait_i,              \* the index of the wait loop
    children,            \* the processes forked so far; the pid is the index
    opened,              \* files created or truncated by open
    lines_read,          \* lines read so far
    words_read,          \* words of the generated lines read so far
    slot_written,        \* slots of parallel_processes assigned on this line
    dispatched,          \* history: the execute_command calls of this line
    events,              \* history: the forks and waitpid calls of this line
    oob,                 \* history: parallel_processes indexed outside the array
    shell_stdout         \* what the shell's descriptor 1 refers to, <<>> being
                         \* the destination it was started with

vars == <<pc, line, args, fault, exit_status, PATH, cwd, arg_position,
          command_arg_count, current_command, process_count,
          parallel_processes, wait_i, children, opened, lines_read,
          words_read, slot_written, dispatched, events, oob, shell_stdout>>

shell_locals == <<arg_position, command_arg_count, current_command,
                  process_count, wait_i>>

(***************************************************************************)
(* Builtins.  Each returns whether it handled the command (the C functions *)
(* return EXIT_SUCCESS then) and what it did.                              *)
(***************************************************************************)
\* Mutant: the argument check is missing.
execute_exit_IgnoresArguments(a) ==
    IF a[1] = W_exit
    THEN [handled |-> TRUE, errs |-> 0, exits |-> TRUE]
    ELSE [handled |-> FALSE, errs |-> 0, exits |-> FALSE]

execute_exit(a) ==
    IF a[1] = W_exit
    THEN IF Len(a) > 1
         THEN [handled |-> TRUE, errs |-> 1, exits |-> FALSE]
         ELSE [handled |-> TRUE, errs |-> 0, exits |-> TRUE]
    ELSE [handled |-> FALSE, errs |-> 0, exits |-> FALSE]

\* Mutant: any argument count of at least one is accepted.
execute_cd_AnyArgumentCount(a, dir) ==
    IF a[1] = W_cd
    THEN IF Len(a) >= 2
         THEN IF a[2] \in Directories
              THEN [handled |-> TRUE, errs |-> 0, cwd |-> a[2], chdirs |-> 1]
              ELSE [handled |-> TRUE, errs |-> 1, cwd |-> dir, chdirs |-> 1]
         ELSE [handled |-> TRUE, errs |-> 1, cwd |-> dir, chdirs |-> 0]
    ELSE [handled |-> FALSE, errs |-> 0, cwd |-> dir, chdirs |-> 0]

execute_cd(a, dir) ==
    IF a[1] = W_cd
    THEN IF Len(a) = 2
         THEN IF a[2] \in Directories
              THEN [handled |-> TRUE, errs |-> 0, cwd |-> a[2], chdirs |-> 1]
              ELSE [handled |-> TRUE, errs |-> 1, cwd |-> dir, chdirs |-> 1]
         ELSE [handled |-> TRUE, errs |-> 1, cwd |-> dir, chdirs |-> 0]
    ELSE [handled |-> FALSE, errs |-> 0, cwd |-> dir, chdirs |-> 0]

\* Mutant: the new directories are added after the old ones.
execute_path_Appends(a, P) ==
    IF a[1] = W_path
    THEN [handled |-> TRUE, PATH |-> P \o SubSeq(a, 2, Len(a))]
    ELSE [handled |-> FALSE, PATH |-> P]

execute_path(a, P) ==
    IF a[1] = W_path
    THEN [handled |-> TRUE,
          PATH |-> IF Len(a) - 1 > TOKENS_NUMBER - 1
                   THEN SubSeq(a, 2, TOKENS_NUMBER)
                   ELSE SubSeq(a, 2, Len(a))]
    ELSE [handled |-> FALSE, PATH |-> P]

execute_builtin_command(a, P, dir) ==
    LET e == execute_exit(a)
        c == execute_cd(a, dir)
        p == execute_path(a, P)
        none == [handled |-> FALSE, name |-> "external", errs |-> 0,
                 exits |-> FALSE, PATH |-> P, cwd |-> dir, chdirs |-> 0]
    IN  IF e.handled
        THEN [none EXCEPT !.handled = TRUE, !.name = "exit", !.errs = e.errs,
                          !.exits = e.exits]
        ELSE IF c.handled
        THEN [none EXCEPT !.handled = TRUE, !.name = "cd", !.errs = c.errs,
                          !.cwd = c.cwd, !.chdirs = c.chdirs]
        ELSE IF p.handled
        THEN [none EXCEPT !.handled = TRUE, !.name = "path", !.PATH = p.PATH]
        ELSE none

create_executable_path(path, command) == path \o <<"/">> \o command

(***************************************************************************)
(* handle_redirection.                                                     *)
(***************************************************************************)
\* C index of the first ">" token of a, or Len(a) when there is none.
RECURSIVE first_redirection(_)
first_redirection(a) ==
    IF a = <<>> \/ Head(a) = W_gt THEN 0 ELSE 1 + first_redirection(Tail(a))

\* Mutant: tokens after the output file are not rejected.
redirection_scan_IgnoresExtraTokens(a) ==
    LET k == first_redirection(a)
        n == Len(a)
    IN  IF k = n
        THEN [syntax_ok |-> TRUE, args |-> a, has_target |-> FALSE, target |-> <<>>]
        ELSE IF k = 0
        THEN [syntax_ok |-> FALSE, args |-> a, has_target |-> FALSE, target |-> <<>>]
        ELSE IF k + 1 = n
        THEN [syntax_ok |-> FALSE, args |-> SubSeq(a, 1, k), has_target |-> FALSE,
              target |-> <<>>]
        ELSE [syntax_ok |-> TRUE, args |-> SubSeq(a, 1, k), has_target |-> TRUE,
              target |-> a[k + 2]]

\* Mutant: the operator and the file name stay in the argument list.
redirection_scan_KeepsOperands(a) ==
    LET k == first_redirection(a)
        n == Len(a)
    IN  IF k = n
        THEN [syntax_ok |-> TRUE, args |-> a, has_target |-> FALSE, target |-> <<>>]
        ELSE IF k = 0 \/ k + 1 = n \/ k + 2 < n
        THEN [syntax_ok |-> FALSE, args |-> a, has_target |-> FALSE, target |-> <<>>]
        ELSE [syntax_ok |-> TRUE, args |-> a, has_target |-> TRUE, target |-> a[k + 2]]

\* The scanning loop: the verdict on the syntax, the argument list up to the
\* first terminator the loop has written, and the output file path.
redirection_scan(a) ==
    LET k == first_redirection(a)
        n == Len(a)
    IN  IF k = n
        THEN [syntax_ok |-> TRUE, args |-> a, has_target |-> FALSE, target |-> <<>>]
        ELSE IF k = 0
        THEN [syntax_ok |-> FALSE, args |-> a, has_target |-> FALSE, target |-> <<>>]
        ELSE IF k + 1 = n
        THEN [syntax_ok |-> FALSE, args |-> SubSeq(a, 1, k), has_target |-> FALSE,
              target |-> <<>>]
        ELSE IF k + 2 < n
        THEN [syntax_ok |-> FALSE, args |-> SubSeq(a, 1, k), has_target |-> FALSE,
              target |-> <<>>]
        ELSE [syntax_ok |-> TRUE, args |-> SubSeq(a, 1, k), has_target |-> TRUE,
              target |-> a[k + 2]]

\* The whole function, dup2_ok being whether dup2 succeeds when it is called.
handle_redirection(a, dup2_ok) ==
    LET s == redirection_scan(a)
        r == [ret |-> EXIT_SUCCESS, args |-> s.args, opens |-> {}, errs |-> 0,
              stdout |-> <<>>]
    IN  IF ~s.syntax_ok THEN [r EXCEPT !.ret = EXIT_FAILURE]
        ELSE IF ~s.has_target THEN r
        ELSE IF s.target \in Directories
        THEN [r EXCEPT !.ret = EXIT_FAILURE, !.errs = 1]
        ELSE IF ~dup2_ok
        THEN [r EXCEPT !.ret = EXIT_FAILURE, !.errs = 1, !.opens = {s.target}]
        ELSE [r EXCEPT !.opens = {s.target}, !.stdout = s.target]


(***************************************************************************)
(* Inputs.                                                                 *)
(***************************************************************************)
Vocabulary == {W_ls, W_f, W_cd, W_exit, W_path, W_gt, W_amp}

RECURSIVE join_words(_)
join_words(ws) ==
    IF ws = <<>> THEN <<>>
    ELSE IF Len(ws) = 1 THEN ws[1]
    ELSE LET h == Len(ws) \div 2
         IN  join_words(SubSeq(ws, 1, h)) \o <<" ">>
                 \o join_words(SubSeq(ws, h + 1, Len(ws)))

\* What getline returns for a line of these words.
InputLine(ws) == join_words(ws) \o <<"\n">>

\* One sub-command more than parallel_processes has slots: as many `cd` as
\* there are slots, then `ls`, then `exit`, each separated by "&".
WideLine ==
    InputLine(concat_all([ i \in 1..MAX_PARALLEL_PROCESSES |-> <<W_cd, W_amp>> ])
                  \o <<W_ls, W_amp, W_exit>>)

\* Longer lines the claims are about, offered as the first line of a run.
ExtraLines ==
    { InputLine(<<W_ls, W_gt, W_ls, W_gt, W_ls>>),
      InputLine(<<W_ls, W_gt, W_ls, W_ls>>),
      InputLine(<<W_ls, W_amp, W_ls, W_amp, W_ls>>),
      InputLine(<<W_ls, W_amp, W_amp, W_ls>>),
      InputLine(<<W_cd, W_f, W_amp, W_ls>>),
      InputLine(<<W_ls \o W_gt \o W_ls>>),
      InputLine(<<W_path, W_f, W_amp, W_path, W_ls>>),
      InputLine(<<W_cd, W_ls, W_amp, W_cd, W_f>>),
      InputLine(<<W_path, W_f, W_amp, W_ls>>),
      WideLine,
      InputLine(<<W_gt \o W_gt>>),
      InputLine(<<W_amp \o W_amp>>) }

LineChoices(used, nread) ==
    { [line |-> InputLine(ws), cost |-> Len(ws)] :
        ws \in UNION { [1..k -> Vocabulary] : k \in 0..(MaxWords - used) } }
    \cup { [line |-> l, cost |-> 0] : l \in IF nread = 0 THEN ExtraLines ELSE {} }

Alphabet == {"a", "b", REDIRECTION_DELIM, PARALLEL_DELIM, " "}
CharLines == UNION { [1..n -> Alphabet] : n \in 0..MaxLineLen }
\* Lines of many one-letter words, around the capacity of the token arrays.
LongLines ==
    { join_words([i \in 1..k |-> <<"a">>]) : k \in (TOKENS_NUMBER - 2)..MaxLongWords }

(***************************************************************************)
(* Initial state: main has run handle_shell_redirection and                *)
(* initialize_path and enters wish_shell.                                  *)
(***************************************************************************)
initialize_path == <<W_bin, W_usr_bin>>

InitCommon ==
    /\ args = <<>>
    /\ fault = "none"
    /\ exit_status = -1
    /\ PATH = initialize_path
    /\ cwd = <<"/">>
    /\ arg_position = 0
    /\ command_arg_count = 0
    /\ current_command = <<>>
    /\ process_count = 0
    /\ parallel_processes = [i \in 0..(MAX_PARALLEL_PROCESSES - 1) |-> NoChildPid]
    /\ wait_i = 0
    /\ children = <<>>
    /\ opened = {}
    /\ lines_read = 0
    /\ words_read = 0
    /\ slot_written = {}
    /\ dispatched = <<>>
    /\ events = <<>>
    /\ oob = FALSE
    /\ shell_stdout = <<>>

Init == pc = "read" /\ line = <<>> /\ InitCommon

(***************************************************************************)
(* wish_shell: reading and parsing a line (lines 463-501).                 *)
(***************************************************************************)
ReadLine ==
    /\ pc = "read"
    /\ lines_read < MaxLines
    /\ \E choice \in LineChoices(words_read, lines_read) :
         LET r == parse_line(choice.line)
         IN  /\ line' = choice.line
             /\ words_read' = words_read + choice.cost
             /\ lines_read' = lines_read + 1
             /\ arg_position' = 0
             /\ command_arg_count' = 0
             /\ current_command' = <<>>
             /\ process_count' = 0
             /\ wait_i' = 0
             /\ slot_written' = {}
             /\ dispatched' = <<>>
             /\ events' = <<>>
             /\ IF r.fault # "none"
                THEN pc' = "crashed" /\ fault' = r.fault /\ args' = <<>>
                ELSE IF r.tokens = <<>>
                \* nothing was stored in the array parse_line returns: args[0]
                \* is indeterminate, NULL or a pointer that cannot be followed
                THEN /\ args' = <<>>
                     /\ \E is_null \in BOOLEAN :
                          /\ pc' = IF is_null THEN "read" ELSE "crashed"
                          /\ fault' = IF is_null THEN "none" ELSE "uninit"
                ELSE pc' = "dispatch" /\ fault' = "none" /\ args' = r.tokens
    /\ UNCHANGED <<exit_status, PATH, cwd, parallel_processes, children, opened, oob,
                   shell_stdout>>

\* getline returns -1: the loop ends, main closes the streams and returns.
EndOfInput ==
    /\ pc = "read"
    /\ pc' = "eof"
    /\ exit_status' = EXIT_SUCCESS
    /\ UNCHANGED <<line, args, fault, PATH, cwd, shell_locals, parallel_processes,
                   children, opened, lines_read, words_read, slot_written,
                   dispatched, events, oob, shell_stdout>>

(***************************************************************************)
(* execute_command, called with &parallel_processes[process_count].        *)
(***************************************************************************)
\* Mutant: the child searches the default registry, not the one in force
\* at the fork.
NewChild_DefaultRegistry(cmd) ==
    [pc |-> "forked", cmd |-> cmd, args |-> cmd, PATH |-> initialize_path, path_count |-> 0,
     redirection_success |-> FALSE, stdout |-> shell_stdout, opens |-> {}, errs |-> 0,
     tried |-> <<>>, image |-> <<>>, argv |-> <<>>, status |-> -1, waits |-> 0,
     born |-> lines_read]

NewChild(cmd) ==
    [pc |-> "forked", cmd |-> cmd, args |-> cmd, PATH |-> PATH, path_count |-> 0,
     redirection_success |-> FALSE, stdout |-> shell_stdout, opens |-> {}, errs |-> 0,
     tried |-> <<>>, image |-> <<>>, argv |-> <<>>, status |-> -1, waits |-> 0,
     born |-> lines_read]

execute_command(cmd, return_pc) ==
    LET b == execute_builtin_command(cmd, PATH, cwd)
        slot == process_count
        pid == Len(children) + 1
        entry == [cmd |-> cmd, name |-> b.name, errs |-> b.errs,
                  chdirs |-> b.chdirs, pid |-> 0,
                  cwd_before |-> cwd, cwd_after |-> b.cwd, PATH |-> PATH]
    IN  IF b.handled
        THEN /\ PATH' = b.PATH
             /\ cwd' = b.cwd
             /\ pc' = IF b.exits THEN "exited" ELSE return_pc
             /\ exit_status' = IF b.exits THEN EXIT_SUCCESS ELSE exit_status
             /\ dispatched' = Append(dispatched, entry)
             /\ UNCHANGED <<children, parallel_processes, slot_written, events, oob>>
        ELSE /\ UNCHANGED <<PATH, cwd, exit_status>>
             /\ \/ \* fork returns -1
                   /\ pc' = return_pc
                   /\ dispatched' = Append(dispatched, [entry EXCEPT !.errs = 1])
                   /\ UNCHANGED <<children, parallel_processes, slot_written,
                                  events, oob>>
                \/ \* fork returns the child's pid to the parent
                   /\ Len(children) < MaxChildren
                   /\ children' = Append(children, NewChild(cmd))
                   /\ dispatched' = Append(dispatched, [entry EXCEPT !.pid = pid])
                   /\ events' = Append(events, [op |-> "fork", pid |-> pid])
                   /\ IF slot < MAX_PARALLEL_PROCESSES
                      THEN /\ pc' = return_pc
                           /\ parallel_processes' =
                                [parallel_processes EXCEPT ![slot] = pid]
                           /\ slot_written' = slot_written \cup {slot}
                           /\ oob' = oob
                      \* the pid is stored past the end of the array, in
                      \* whatever follows it on the stack: the shell goes on,
                      \* or what it overwrote stops it
                      ELSE /\ \E smashed \in BOOLEAN :
                                pc' = IF smashed THEN "crashed" ELSE return_pc
                           /\ oob' = TRUE
                           /\ UNCHANGED <<parallel_processes, slot_written>>

(***************************************************************************)
(* wish_shell: the dispatch loop (lines 503-549).                          *)
(***************************************************************************)
\* Mutant: the loop ends after the first command executed at a delimiter.
DispatchLoopCond_StopsAfterDelimiter(a, position) ==
    IF position = 0 THEN position < Len(a)
    ELSE position < Len(a) /\ a[position] # W_amp

DispatchLoopCond(a, position) == position < Len(a)

\* An iteration on a token that is not "&": the token joins current_command.
CopyToken ==
    /\ pc = "dispatch"
    /\ DispatchLoopCond(args, arg_position)
    /\ args[arg_position + 1] # W_amp
    /\ current_command' = SubSeq(current_command, 1, command_arg_count)
                             \o <<args[arg_position + 1]>>
    /\ arg_position' = arg_position + 1
    /\ command_arg_count' = command_arg_count + 1
    /\ UNCHANGED <<pc, line, args, fault, exit_status, PATH, cwd, process_count,
                   parallel_processes, wait_i, children, opened, lines_read,
                   words_read, slot_written, dispatched, events, oob, shell_stdout>>

\* An iteration on "&" after at least one token: the command is executed.
DispatchAtDelimiter ==
    /\ pc = "dispatch"
    /\ DispatchLoopCond(args, arg_position)
    /\ args[arg_position + 1] = W_amp
    /\ command_arg_count # 0
    /\ execute_command(SubSeq(current_command, 1, command_arg_count), "dispatch")
    /\ process_count' = process_count + 1
    /\ current_command' = <<>>
    /\ command_arg_count' = 0
    /\ arg_position' = arg_position + 1
    /\ UNCHANGED <<line, args, fault, wait_i, opened, lines_read, words_read,
                   shell_stdout>>

\* An iteration on "&" with no token before it: break.
BreakOnEmptyCommand ==
    /\ pc = "dispatch"
    /\ DispatchLoopCond(args, arg_position)
    /\ args[arg_position + 1] = W_amp
    /\ command_arg_count = 0
    /\ pc' = "wait"
    /\ wait_i' = 0
    /\ current_command' = <<W_amp>>
    /\ UNCHANGED <<line, args, fault, exit_status, PATH, cwd, arg_position,
                   command_arg_count, process_count, parallel_processes,
                   children, opened, lines_read, words_read, slot_written,
                   dispatched, events, oob, shell_stdout>>

\* The loop has ended: the pending command, if any, is executed.
DispatchLast ==
    /\ pc = "dispatch"
    /\ ~DispatchLoopCond(args, arg_position)
    /\ wait_i' = 0
    /\ IF command_arg_count # 0
       THEN /\ execute_command(current_command, "wait")
            /\ process_count' = process_count + 1
       ELSE /\ pc' = "wait"
            /\ UNCHANGED <<exit_status, PATH, cwd, process_count,
                           parallel_processes, children, slot_written,
                           dispatched, events, oob>>
    /\ UNCHANGED <<line, args, fault, arg_position, command_arg_count,
                   current_command, opened, lines_read, words_read, shell_stdout>>


(***************************************************************************)
(* wish_shell: the wait loop (lines 551-561).                              *)
(***************************************************************************)
\* Mutant: the last handle is not waited for.
WaitLoopCond_SkipsLast(i, count) == i < count - 1

WaitLoopCond(i, count) == i < count

Unreaped == { c \in 1..Len(children) : children[c].pc # "reaped" }
Zombies == { c \in 1..Len(children) : children[c].pc = "zombie" }

\* What parallel_processes[i] can hold when it is read: a slot that was not
\* assigned on this line is indeterminate (the bytes left there, any-child,
\* or a pid that is no child of the shell).
SlotValues(i) ==
    IF i >= MAX_PARALLEL_PROCESSES
    THEN {WAIT_ANY, NoChildPid} \cup (1..Len(children))
    ELSE IF i \in slot_written THEN {parallel_processes[i]}
    ELSE {parallel_processes[i], WAIT_ANY, NoChildPid}

Reap(c) == [children EXCEPT ![c].pc = "reaped", ![c].waits = @ + 1]

\* waitpid(v, &status, 0) returning: with a child's pid it blocks until that
\* child has terminated, with -1 until any child has; with no such child it
\* fails with ECHILD at once.
waitpid(v) ==
    IF v \in Unreaped
    THEN /\ v \in Zombies
         /\ children' = Reap(v)
         /\ events' = Append(events, [op |-> "waitpid", pid |-> v])
    ELSE IF v = WAIT_ANY /\ Unreaped # {}
    THEN \E c \in Zombies :
            /\ children' = Reap(c)
            /\ events' = Append(events, [op |-> "waitpid", pid |-> v])
    ELSE /\ children' = IF v \in 1..Len(children)
                        THEN [children EXCEPT ![v].waits = @ + 1]
                        ELSE children
         /\ events' = Append(events, [op |-> "waitpid", pid |-> v])

WaitStep ==
    /\ pc = "wait"
    /\ WaitLoopCond(wait_i, process_count)
    /\ \E v \in SlotValues(wait_i) : waitpid(v)
    /\ wait_i' = wait_i + 1
    /\ oob' = (oob \/ wait_i >= MAX_PARALLEL_PROCESSES)
    /\ UNCHANGED <<pc, line, args, fault, exit_status, PATH, cwd, arg_position,
                   command_arg_count, current_command, process_count,
                   parallel_processes, opened, lines_read, words_read,
                   slot_written, dispatched, shell_stdout>>

\* The wait loop has ended: back to the top of the while loop.
WaitDone ==
    /\ pc = "wait"
    /\ ~WaitLoopCond(wait_i, process_count)
    /\ pc' = "read"
    /\ UNCHANGED <<line, args, fault, exit_status, PATH, cwd, shell_locals,
                   parallel_processes, children, opened, lines_read, words_read,
                   slot_written, dispatched, events, oob, shell_stdout>>

(***************************************************************************)
(* The child branch of execute_command (lines 309-336), one process per    *)
(* successful fork, running concurrently with the shell.                   *)
(***************************************************************************)
shell_state == <<pc, line, args, fault, exit_status, PATH, cwd, shell_locals,
                 parallel_processes, lines_read, words_read, slot_written,
                 dispatched, events, oob>>

\* Mutant: the descriptor table is shared with the shell.
stdout_in_parent_Shared(out, r) == IF r.stdout # <<>> THEN r.stdout ELSE out

\* fork gave the child its own copy of the descriptor table: what the child's
\* dup2 does leaves the shell's descriptor 1 where it was.
stdout_in_parent(out, r) == out

ChildRedirect(p) ==
    /\ children[p].pc = "forked"
    /\ \E dup2_ok \in BOOLEAN :
         LET r == handle_redirection(children[p].args, dup2_ok)
         IN  /\ children' = [children EXCEPT
                    ![p].pc = "search",
                    ![p].args = r.args,
                    ![p].redirection_success = (r.ret = EXIT_SUCCESS),
                    ![p].stdout = IF r.stdout # <<>> THEN r.stdout ELSE @,
                    ![p].opens = r.opens,
                    ![p].errs = @ + r.errs]
             /\ opened' = opened \cup r.opens
             /\ shell_stdout' = stdout_in_parent(shell_stdout, r)
    /\ UNCHANGED shell_state

\* Mutant: the last registry entry is never tried.
SearchLoopCond_SkipsLast(c) ==
    c.redirection_success /\ c.path_count < Len(c.PATH) - 1

SearchLoopCond(c) == c.redirection_success /\ c.path_count < Len(c.PATH)

\* One iteration of the search loop: execv loads the image or returns.
ChildExec(p) ==
    /\ children[p].pc = "search"
    /\ SearchLoopCond(children[p])
    /\ LET c == children[p]
           executable_path == create_executable_path(c.PATH[c.path_count + 1], c.args[1])
       IN  IF executable_path \in Executables
           THEN children' = [children EXCEPT
                    ![p].pc = "running",
                    ![p].tried = Append(@, executable_path),
                    ![p].image = executable_path,
                    ![p].argv = c.args]
           ELSE children' = [children EXCEPT
                    ![p].tried = Append(@, executable_path),
                    ![p].path_count = @ + 1]
    /\ UNCHANGED <<shell_state, opened, shell_stdout>>

\* Mutant: the child reports the error and does not exit.
ChildFail_NoExit(p) ==
    /\ children[p].pc = "search"
    /\ ~SearchLoopCond(children[p])
    /\ children' = [children EXCEPT
            ![p].pc = "returned",
            ![p].errs = @ + 1]
    /\ UNCHANGED <<shell_state, opened, shell_stdout>>

\* The loop is over without an image loaded: the error, then exit.
ChildFail(p) ==
    /\ children[p].pc = "search"
    /\ ~SearchLoopCond(children[p])
    /\ children' = [children EXCEPT
            ![p].pc = "zombie",
            ![p].errs = @ + 1,
            ![p].status = EXIT_FAILURE]
    /\ UNCHANGED <<shell_state, opened, shell_stdout>>

\* The loaded program terminates.
ChildTerminate(p) ==
    /\ children[p].pc = "running"
    /\ children' = [children EXCEPT ![p].pc = "zombie", ![p].status = EXIT_SUCCESS]
    /\ UNCHANGED <<shell_state, opened, shell_stdout>>

(***************************************************************************)
(* The shell with its children.                                            *)
(***************************************************************************)
Next ==
    \/ ReadLine
    \/ EndOfInput
    \/ CopyToken
    \/ DispatchAtDelimiter
    \/ BreakOnEmptyCommand
    \/ DispatchLast
    \/ WaitStep
    \/ WaitDone
    \/ \E p \in 1..Len(children) : ChildRedirect(p)
    \/ \E p \in 1..Len(children) : ChildExec(p)
    \/ \E p \in 1..Len(children) : ChildFail(p)
    \/ \E p \in 1..Len(children) : ChildTerminate(p)

Spec == Init /\ [][Next]_vars

(***************************************************************************)
(* The tokenizer alone: parse_line applied to every line over Alphabet.    *)
(***************************************************************************)
\* The shell with its children under a scheduler that does not starve the
\* processes that can run: a step of the shell after getline has returned, or
\* of a child, is eventually taken while one is possible.  The input is the
\* environment's: nothing forces a line or the end of input to arrive.
ProcessStep ==
    \/ CopyToken
    \/ DispatchAtDelimiter
    \/ BreakOnEmptyCommand
    \/ DispatchLast
    \/ WaitStep
    \/ WaitDone
    \/ \E p \in 1..Len(children) : ChildRedirect(p)
    \/ \E p \in 1..Len(children) : ChildExec(p)
    \/ \E p \in 1..Len(children) : ChildFail(p)
    \/ \E p \in 1..Len(children) : ChildTerminate(p)

SpecLive == Spec /\ WF_vars(ProcessStep)

InitTok == pc = "parse" /\ line \in CharLines \cup LongLines /\ InitCommon

ParseOnly ==
    /\ pc = "parse"
    /\ pc' = "parsed"
    /\ LET r == parse_line(line)
       IN  args' = r.tokens /\ fault' = r.fault
    /\ UNCHANGED <<line, exit_status, PATH, cwd, shell_locals, parallel_processes,
                   children, opened, lines_read, words_read, slot_written,
                   dispatched, events, oob, shell_stdout>>

NextTok == ParseOnly

SpecTok == InitTok /\ [][NextTok]_vars


(***************************************************************************)
(* Vocabulary of the properties.                                           *)
(***************************************************************************)
\* The maximal runs of tokens between "&" tokens, empty runs included; no
\* run is opened by a trailing "&".
RECURSIVE Runs(_)
Runs(a) ==
    IF a = <<>> THEN <<>>
    ELSE LET n == span_length(a, {W_amp})
         IN  IF n = Len(a) THEN <<a>>
             ELSE <<SubSeq(a, 1, n)>> \o Runs(SubSeq(a, n + 2, Len(a)))

NonEmptyRuns(a) == SelectSeq(Runs(a), LAMBDA r : r # <<>>)

DispatchedCommands == [i \in 1..Len(dispatched) |-> dispatched[i].cmd]

Forks == { i \in 1..Len(events) : events[i].op = "fork" }
Waits == { i \in 1..Len(events) : events[i].op = "waitpid" }

AllReaped == \A c \in 1..Len(children) : children[c].pc = "reaped"

CountChar(s, ch) == Cardinality({ i \in 1..Len(s) : s[i] = ch })
CountToken(a, t) == Cardinality({ i \in 1..Len(a) : a[i] = t })

IsWord(s) ==
    /\ s # <<>>
    /\ \A i \in 1..Len(s) : s[i] \notin DELIM \cup {REDIRECTION_DELIM, PARALLEL_DELIM}

(***************************************************************************)
(* Properties of the orchestrator.                                         *)
(***************************************************************************)
\* C1: whenever the shell is at the point where it reads the next line,
\* every child it has forked has terminated and has been reaped by a wait:
\* a line is a synchronization barrier.
C1_LineIsBarrier == pc = "read" => AllReaped

C1_Witness ==
    /\ pc = "read"
    /\ lines_read = 1
    /\ Cardinality(Forks) >= 2
    /\ AllReaped

\* C2: once a line's wait step is over, every child forked so far has been
\* the target of exactly one wait operation.
C2_ExactlyOneWait ==
    pc = "read" => \A c \in 1..Len(children) : children[c].waits = 1

\* C3: no fork of a line follows a wait of that line, and when the first
\* wait of a line without empty sub-commands is issued, execute_command has
\* been called for every sub-command of the line.
C3_AllLaunchedBeforeWait ==
    /\ \A i \in Waits : \A j \in Forks : j < i
    /\ (pc = "wait" /\ NonEmptyRuns(args) = Runs(args))
          => DispatchedCommands = Runs(args)

C3_Witness ==
    /\ pc = "wait"
    /\ Cardinality(Forks) = 3
    /\ Cardinality(Waits) = 1
    /\ Len(Runs(args)) = 3

\* C4: when the dispatch of a line is over, the commands execute_command was
\* called with are the non-empty runs of the token stream, each once, in
\* left-to-right order.
C4_EachRunDispatchedOnce ==
    pc = "wait" => DispatchedCommands = NonEmptyRuns(args)

\* C5: a line whose sub-commands are all builtins records no process handle
\* and its wait step issues no wait operation.
C5_BuiltinsRecordNoHandle ==
    (pc \in {"wait", "read"}
        /\ \A i \in 1..Len(dispatched) : dispatched[i].name # "external")
      => process_count = 0 /\ Waits = {}

(***************************************************************************)
(* Properties of the tokenizer.                                            *)
(***************************************************************************)
\* C6: when tokenization completes, the token stream holds one token that is
\* exactly the operator for every occurrence of ">" and of "&" in the line.
C6_EveryOperatorPreserved ==
    (pc = "parsed" /\ fault = "none") =>
        /\ CountToken(args, W_gt) = CountChar(line, REDIRECTION_DELIM)
        /\ CountToken(args, W_amp) = CountChar(line, PARALLEL_DELIM)

\* C7: for words x and y, the line x>y gives exactly x, ">", y and the line
\* x&y exactly x, "&", y, which is also what "x > y" and "x & y" give.
C7_GluedEqualsSpaced ==
    pc = "parsed" =>
        \A k \in 1..Len(line) :
            LET x == SubSeq(line, 1, k - 1)
                y == SubSeq(line, k + 1, Len(line))
            IN  (line[k] \in {REDIRECTION_DELIM, PARALLEL_DELIM} /\ IsWord(x) /\ IsWord(y))
                  => /\ fault = "none"
                     /\ args = <<x, <<line[k]>>, y>>
                     /\ parse_line(x \o <<" ", line[k], " ">> \o y).tokens = args

C7_Witness ==
    /\ pc = "parsed"
    /\ line = <<"a", "b", PARALLEL_DELIM, "b">>
    /\ args = <<<<"a", "b">>, W_amp, <<"b">>>>

\* C8: after tokenization has completed, every token is exactly ">", exactly
\* "&", or a non-empty string without ">" and "&".
C8_OperatorsIsolated ==
    (pc = "parsed" /\ fault = "none") =>
        \A i \in 1..Len(args) :
            \/ args[i] = W_gt
            \/ args[i] = W_amp
            \/ /\ args[i] # <<>>
               /\ \A j \in 1..Len(args[i]) :
                     args[i][j] \notin {REDIRECTION_DELIM, PARALLEL_DELIM}

C8_Witness ==
    /\ pc = "parsed"
    /\ line = <<"a", REDIRECTION_DELIM, "b", PARALLEL_DELIM, "a">>
    /\ args = <<<<"a">>, W_gt, <<"b">>, W_amp, <<"a">>>>

(***************************************************************************)
(* Properties of redirection.                                              *)
(***************************************************************************)
GtPositions(cmd) == { i \in 1..Len(cmd) : cmd[i] = W_gt }

\* "> out.txt": no command before the operator.
NoCommandBeforeRedirection(cmd) == cmd[1] = W_gt
\* "ls > a > b": a second operator after the first one's target.
TwoRedirectionTargets(cmd) ==
    \E i, j \in GtPositions(cmd) :
        /\ i > 1
        /\ \A h \in GtPositions(cmd) : i <= h
        /\ j >= i + 2

\* The malformed shapes: ">" first, nothing after it, more than one token
\* after it, or a ">" right after it.
MalformedRedirection(cmd) ==
    \E i \in GtPositions(cmd) :
        /\ \A h \in GtPositions(cmd) : i <= h
        /\ \/ i = 1
           \/ i = Len(cmd)
           \/ Len(cmd) > i + 1
           \/ cmd[i + 1] = W_gt

Terminated(c) == c.pc \in {"zombie", "reaped"}

\* C9 as stated: no process is spawned for a sub-command with "> out.txt"
\* or "ls > a > b" syntax.
C9_NoProcessSpawned ==
    \A c \in 1..Len(children) :
        ~(NoCommandBeforeRedirection(children[c].cmd)
            \/ TwoRedirectionTargets(children[c].cmd))

\* C9 amended: the child forked for such a sub-command never attempts to
\* load a program image and opens no file; it reports the generic error
\* once and exits with failure status.
C9_SyntaxErrorLoadsNoImage ==
    \A c \in 1..Len(children) :
        (NoCommandBeforeRedirection(children[c].cmd)
            \/ TwoRedirectionTargets(children[c].cmd))
          => /\ children[c].tried = <<>>
             /\ children[c].image = <<>>
             /\ children[c].opens = {}
             /\ children[c].pc # "running"
             /\ Terminated(children[c])
                   => children[c].errs = 1 /\ children[c].status = EXIT_FAILURE

C9_Witness ==
    \E c \in 1..Len(children) :
        /\ TwoRedirectionTargets(children[c].cmd)
        /\ children[c].pc = "zombie"
        /\ children[c].errs = 1

\* C10: for an external sub-command with malformed redirection no target
\* file is opened, no program image is loaded, and the generic error is
\* reported.
C10_MalformedOpensNothing ==
    \A c \in 1..Len(children) :
        MalformedRedirection(children[c].cmd)
          => /\ children[c].opens = {}
             /\ children[c].image = <<>>
             /\ Terminated(children[c]) => children[c].errs >= 1

\* "cmd args > file": one operator, a command before it, one token after it.
WellFormedRedirection(cmd) ==
    \E i \in GtPositions(cmd) :
        GtPositions(cmd) = {i} /\ i > 1 /\ i + 1 = Len(cmd)

RedirectionIndex(cmd) == CHOOSE i \in GtPositions(cmd) : TRUE

\* C11: for a well-formed redirection the child's standard output is the
\* created-or-truncated file before it attempts to load any program image,
\* and the argument list it passes to execv is exactly the tokens before
\* ">".
C11_RedirectBeforeLoad ==
    \A c \in 1..Len(children) :
        WellFormedRedirection(children[c].cmd) =>
            LET i == RedirectionIndex(children[c].cmd)
                target == children[c].cmd[i + 1]
                before == SubSeq(children[c].cmd, 1, i - 1)
            IN  /\ children[c].tried # <<>>
                      => /\ children[c].stdout = target
                         /\ children[c].opens = {target}
                         /\ target \in opened
                         /\ children[c].args = before
                /\ children[c].image # <<>> => children[c].argv = before

C11_Witness ==
    \E c \in 1..Len(children) :
        /\ children[c].cmd = <<W_ls, W_gt, W_ls>>
        /\ children[c].pc = "running"
        /\ children[c].stdout = W_ls
        /\ children[c].argv = <<W_ls>>

\* C12: whatever lines are read and whatever the children redirect, the
\* shell's own standard output stays the destination it was started with.
C12_ShellStdoutUntouched == shell_stdout = <<>>

C12_Witness ==
    /\ pc = "read"
    /\ lines_read = 2
    /\ shell_stdout = <<>>
    /\ \E c \in 1..Len(children) :
          children[c].stdout = W_ls /\ children[c].pc = "reaped"

(***************************************************************************)
(* Properties of the resolver and of the builtins.                         *)
(***************************************************************************)
\* C13: a child tries <dir>/<argv[0]> for the registry entries in registry
\* order, goes on only after a failed load and stops at the first load that
\* succeeds; it reports the error and exits with failure status only when
\* every entry has been tried and has failed, at once when there is none.
C13_SearchInRegistryOrder ==
    \A c \in 1..Len(children) :
        LET ch == children[c]
            n == Len(ch.tried)
        IN  /\ n <= Len(ch.PATH)
            /\ \A k \in 1..n : ch.tried[k] = ch.PATH[k] \o <<"/">> \o ch.cmd[1]
            /\ \A k \in 1..(n - 1) : ch.tried[k] \notin Executables
            /\ ch.image # <<>>
                  => n > 0 /\ ch.image = ch.tried[n] /\ ch.image \in Executables
            /\ (ch.redirection_success /\ (ch.errs > 0 \/ ch.status = EXIT_FAILURE))
                  => /\ n = Len(ch.PATH)
                     /\ \A k \in 1..n : ch.tried[k] \notin Executables
                     /\ ch.errs = 1
                     /\ ch.status = EXIT_FAILURE
            /\ (ch.redirection_success /\ Terminated(ch) /\ ch.image = <<>>)
                  => ch.errs = 1 /\ ch.status = EXIT_FAILURE

C13_Witness ==
    \E c \in 1..Len(children) :
        /\ Len(children[c].tried) = 2
        /\ children[c].image = W_usr_bin \o <<"/">> \o W_ls
        /\ children[c].pc = "running"

\* The registry is empty: the error comes with no path tried.
C13_WitnessEmptyRegistry ==
    \E c \in 1..Len(children) :
        /\ children[c].PATH = <<>>
        /\ children[c].redirection_success
        /\ children[c].pc = "zombie"
        /\ children[c].tried = <<>>

LastDispatched == dispatched[Len(dispatched)]

\* C14: after `path d1 ... dn` has been dispatched the registry is exactly
\* d1..dn in the order given, whatever it held before; with n = 0 it is
\* empty.
C14_PathReplacesRegistry ==
    (dispatched # <<>> /\ LastDispatched.cmd[1] = W_path)
        => PATH = Tail(LastDispatched.cmd)

C14_Witness ==
    /\ Len(dispatched) = 2
    /\ dispatched[1].cmd = <<W_path, W_f>>
    /\ dispatched[2].cmd = <<W_path, W_ls>>
    /\ PATH = <<W_ls>>

\* `path` with no operand after the defaults: the registry is empty.
C14_WitnessNoOperand ==
    /\ dispatched # <<>>
    /\ LastDispatched.cmd = <<W_path>>
    /\ PATH = <<>>

\* C15: `exit` alone ends the shell process at once with success status: it
\* is the last command dispatched and no wait has been issued on its line;
\* `exit` with arguments reports the generic error and the shell goes on.
C15_ExitSemantics ==
    /\ pc = "exited"
          => /\ exit_status = EXIT_SUCCESS
             /\ dispatched # <<>>
             /\ LastDispatched.cmd = <<W_exit>>
             /\ Waits = {}
    /\ \A i \in 1..Len(dispatched) :
          dispatched[i].cmd[1] = W_exit
            => IF Len(dispatched[i].cmd) = 1
               THEN i = Len(dispatched) /\ pc = "exited" /\ dispatched[i].errs = 0
               ELSE /\ dispatched[i].errs = 1
                    /\ dispatched[i].pid = 0
                    /\ (i = Len(dispatched) => pc # "exited")

\* `exit` after a launch: the child is left running, unwaited.
C15_Witness ==
    /\ pc = "exited"
    /\ exit_status = EXIT_SUCCESS
    /\ Len(children) = 1
    /\ children[1].pc = "running"
    /\ Len(dispatched) = 2

\* `exit f`: the error, and the shell reads the next line.
C15_WitnessArguments ==
    /\ pc = "read"
    /\ lines_read = 1
    /\ dispatched # <<>>
    /\ LastDispatched.cmd = <<W_exit, W_f>>
    /\ LastDispatched.errs = 1

\* C16: `cd` with one argument attempts the change, and a failed attempt
\* reports the generic error and leaves the working directory where it was;
\* with no or several arguments it reports the error without an attempt; the
\* shell keeps running, and a `cd` to a directory that exists succeeds
\* whatever came before.
C16_CdSemantics ==
    \A i \in 1..Len(dispatched) :
        LET d == dispatched[i]
        IN  d.cmd[1] = W_cd
              => /\ d.pid = 0
                 /\ IF Len(d.cmd) = 2
                    THEN /\ d.chdirs = 1
                         /\ IF d.cmd[2] \in Directories
                            THEN d.errs = 0 /\ d.cwd_after = d.cmd[2]
                            ELSE d.errs = 1 /\ d.cwd_after = d.cwd_before
                    ELSE d.chdirs = 0 /\ d.errs = 1 /\ d.cwd_after = d.cwd_before
                 /\ i = Len(dispatched) => cwd = d.cwd_after /\ pc # "exited"

C16_Witness ==
    /\ Len(dispatched) = 2
    /\ dispatched[1].cmd = <<W_cd, W_ls>>
    /\ dispatched[1].errs = 1
    /\ dispatched[1].cwd_after = <<"/">>
    /\ dispatched[2].cmd = <<W_cd, W_f>>
    /\ dispatched[2].errs = 0
    /\ cwd = W_f

\* C17: a line of more than TOKENS_NUMBER words is refused by the tokenizer:
\* no token stream is returned for it.
C17_ExcessTokensRejected ==
    (pc = "parsed" /\ Len(strtok_all(line, DELIM)) > TOKENS_NUMBER)
        => fault # "none"

\* The line holds at least one word and every word of it is made of operator
\* characters only.
OperatorOnlyLine(l) ==
    LET words == strtok_all(l, DELIM)
    IN  /\ words # <<>>
        /\ \A i \in 1..Len(words) : \A k \in 1..Len(words[i]) :
               words[i][k] \in {REDIRECTION_DELIM, PARALLEL_DELIM}

\* C18: a line made only of operator characters does not crash the shell.
C18_OperatorLineDoesNotCrash ==
    OperatorOnlyLine(line) => pc # "crashed"

\* C19: a child searches the registry in force when execute_command was
\* called for it: the operands of the latest `path` dispatched before it on
\* the line if there is one, and not what a later `path` has stored since.
C19_RegistryAsAtLaunch ==
    \A j \in 1..Len(dispatched) :
        dispatched[j].pid # 0 =>
            LET c == children[dispatched[j].pid]
                at_launch == dispatched[j].PATH
            IN  /\ \A i \in 1..(j - 1) :
                       ( /\ dispatched[i].name = "path"
                         /\ \A m \in (i + 1)..(j - 1) : dispatched[m].name # "path" )
                           => at_launch = Tail(dispatched[i].cmd)
                /\ Len(c.tried) <= Len(at_launch)
                /\ \A k \in 1..Len(c.tried) :
                       c.tried[k] = create_executable_path(at_launch[k], c.cmd[1])
                /\ (c.pc = "zombie" /\ c.image = <<>> /\ c.redirection_success)
                       => Len(c.tried) = Len(at_launch)

\* A child launched before a `path` on its line loads its image from the
\* registry that `path` has since replaced.
C19_Witness ==
    \E j \in 1..Len(dispatched) : \E i \in (j + 1)..Len(dispatched) :
        /\ dispatched[j].pid # 0
        /\ dispatched[i].name = "path"
        /\ PATH # dispatched[j].PATH
        /\ children[dispatched[j].pid].tried =
               <<W_bin \o <<"/">> \o W_ls, W_usr_bin \o <<"/">> \o W_ls>>
        /\ children[dispatched[j].pid].image # <<>>

\* A child launched after a `path` on its line searches what that `path` set.
C19_WitnessEarlierPath ==
    /\ Len(dispatched) = 2
    /\ dispatched[1].cmd = <<W_path, W_f>>
    /\ dispatched[2].pid # 0
    /\ children[dispatched[2].pid].tried = <<W_f \o <<"/">> \o W_ls>>
    /\ children[dispatched[2].pid].pc = "zombie"

\* C20: with children that terminate, a shell in the wait loop gets back to
\* reading the next line; at end of input the shell process has exited with
\* the success status.
C20_WaitCompletesAndEofSucceeds ==
    /\ (pc = "wait") ~> (pc = "read")
    /\ [](pc = "eof" => exit_status = EXIT_SUCCESS)

\* End of input after a line whose child was waited for.
C20_Witness ==
    /\ pc = "eof"
    /\ exit_status = EXIT_SUCCESS
    /\ lines_read >= 1
    /\ \E c \in 1..Len(children) :
           children[c].pc = "reaped" /\ children[c].status = EXIT_SUCCESS

\* C21: no pid is stored in or read from parallel_processes at an index
\* outside its MAX_PARALLEL_PROCESSES slots, in the dispatch loop or in the
\* wait loop.
C21_HandleIndexInsideArray == ~oob

\* C22: a sub-command that fails emits the error message exactly once: a
\* child that ended without loading an image has written it once, and the
\* shell writes it at most once for a command it handles itself.
C22_ErrorEmittedOnce ==
    /\ \A c \in 1..Len(children) :
           (children[c].pc \in {"zombie", "reaped"} /\ children[c].image = <<>>)
               => children[c].errs = 1
    /\ \A i \in 1..Len(dispatched) : dispatched[i].errs <= 1

====
